---- MODULE Spec2Model ----
(***************************************************************************)
(* Model of the legal-document chunking pipeline of                        *)
(* src/ingestion_scripts/chunking.py:                                      *)
(*   parse_legal_document_to_dict   lines -> title, tree                   *)
(*   create_chunks_from_tree        tree -> path-chunks -> merged chunks   *)
(*   process_folder_to_unified_json folder of files -> persisted JSON list *)
(*                                                                         *)
(* A string is a sequence of characters.  A character is written as a      *)
(* one-element ASCII name: ASCII characters stand for themselves, and a    *)
(* Vietnamese letter is written in VIQR (base letter, then ^ ( + for the   *)
(* shape, then ' - ? ~ . for the tone, - being the grave; DD/dd for the   *)
(* barred D), so that "Dieu 1" with its diacritics is                      *)
(* <<"DD","i","e^-","u"," ","1">>.                                       *)
(***************************************************************************)
EXTENDS Naturals, Integers, Sequences, FiniteSets, TLC

VARIABLES
    max_token,        \* create_chunks_from_tree / process_folder: max_token
    model_name,       \* the tokenizer chosen by model_name (count_tokens)
    pc,               \* position of the single-document pipeline
    lines,            \* parse: the stripped non-empty lines of the file
    title_found,      \* parse: <<>> while None, else <<title>>
    appendix_start_index, \* parse: 0 while None, else 1-based index
    todo,             \* parse: lines[:appendix_start_index] not yet consumed
    nodes,            \* parse: the nodes created so far (arena, creation order)
    stack,            \* parse: the construction stack (indices into nodes)
    non_saved_lines,  \* parse: lines seen while the stack was empty
    result,           \* create_chunks_from_tree: its outcome for the document
    folder,           \* process_folder: path -> lines of the TXT file, if present
    output_json,      \* process_folder: the persisted list of chunk records
    history           \* record of the last run (what it saw and what failed)

vars == << max_token, model_name, pc, lines, title_found, appendix_start_index,
           todo, nodes, stack, non_saved_lines, result, folder, output_json,
           history >>

pipeVars == << pc, lines, title_found, appendix_start_index, todo, nodes,
               stack, non_saved_lines, result >>

batchVars == << folder, output_json, history >>

(***************************************************************************)
(* Characters and strings                                                  *)
(***************************************************************************)
Whitespace == {" "}

Digits == {"0", "1", "2", "3", "4", "5", "6", "7", "8", "9"}

\* str.lower() / re.IGNORECASE on the characters the model uses
LowerMap ==
    "A" :> "a" @@ "B" :> "b" @@ "C" :> "c" @@ "D" :> "d" @@ "E" :> "e" @@
    "F" :> "f" @@ "G" :> "g" @@ "H" :> "h" @@ "I" :> "i" @@ "J" :> "j" @@
    "K" :> "k" @@ "L" :> "l" @@ "M" :> "m" @@ "N" :> "n" @@ "O" :> "o" @@
    "P" :> "p" @@ "Q" :> "q" @@ "R" :> "r" @@ "S" :> "s" @@ "T" :> "t" @@
    "U" :> "u" @@ "V" :> "v" @@ "W" :> "w" @@ "X" :> "x" @@ "Y" :> "y" @@
    "Z" :> "z" @@ "A'" :> "a'" @@ "A-" :> "a-" @@ "A?" :> "a?" @@ "A~" :> "a~" @@
    "A." :> "a." @@ "A^" :> "a^" @@ "A^'" :> "a^'" @@ "A^-" :> "a^-" @@ "A^?" :> "a^?" @@
    "A^~" :> "a^~" @@ "A^." :> "a^." @@ "A(" :> "a(" @@ "A('" :> "a('" @@ "A(-" :> "a(-" @@
    "A(?" :> "a(?" @@ "A(~" :> "a(~" @@ "A(." :> "a(." @@ "E'" :> "e'" @@ "E-" :> "e-" @@
    "E?" :> "e?" @@ "E~" :> "e~" @@ "E." :> "e." @@ "E^" :> "e^" @@ "E^'" :> "e^'" @@
    "E^-" :> "e^-" @@ "E^?" :> "e^?" @@ "E^~" :> "e^~" @@ "E^." :> "e^." @@ "I'" :> "i'" @@
    "I-" :> "i-" @@ "I?" :> "i?" @@ "I~" :> "i~" @@ "I." :> "i." @@ "O'" :> "o'" @@
    "O-" :> "o-" @@ "O?" :> "o?" @@ "O~" :> "o~" @@ "O." :> "o." @@ "O^" :> "o^" @@
    "O^'" :> "o^'" @@ "O^-" :> "o^-" @@ "O^?" :> "o^?" @@ "O^~" :> "o^~" @@ "O^." :> "o^." @@
    "O+" :> "o+" @@ "O+'" :> "o+'" @@ "O+-" :> "o+-" @@ "O+?" :> "o+?" @@ "O+~" :> "o+~" @@
    "O+." :> "o+." @@ "U'" :> "u'" @@ "U-" :> "u-" @@ "U?" :> "u?" @@ "U~" :> "u~" @@
    "U." :> "u." @@ "U+" :> "u+" @@ "U+'" :> "u+'" @@ "U+-" :> "u+-" @@ "U+?" :> "u+?" @@
    "U+~" :> "u+~" @@ "U+." :> "u+." @@ "Y'" :> "y'" @@ "Y-" :> "y-" @@ "Y?" :> "y?" @@
    "Y~" :> "y~" @@ "Y." :> "y." @@ "DD" :> "dd"

Lower(c) == IF c \in DOMAIN LowerMap THEN LowerMap[c] ELSE c

LowerStr(s) == [k \in 1..Len(s) |-> Lower(s[k])]

\* characters that are not \w (letters, digits and underscore are)
NonWord == {" ", ".", ")", "(", ",", ":", ";", "!", "?", "-", "/", "U+3002", "U+FF1A"}

IsWord(c) == c \notin NonWord

\* \b at position p: between s[p-1] and s[p]
WordBoundary(s, p) ==
    LET before == p > 1 /\ p - 1 <= Len(s) /\ IsWord(s[p - 1])
        after  == p >= 1 /\ p <= Len(s) /\ IsWord(s[p])
    IN  before # after

\* the literal p occurs in s at position i
LitAt(s, i, p) ==
    /\ i + Len(p) - 1 <= Len(s)
    /\ \A k \in 1..Len(p) : s[i + k - 1] = p[k]

\* the same, under re.IGNORECASE (p is lower case)
LitAtCI(s, i, p) ==
    /\ i + Len(p) - 1 <= Len(s)
    /\ \A k \in 1..Len(p) : Lower(s[i + k - 1]) = p[k]

\* the positions where a run \s+ starting at i may end (exclusive)
WsAfter(s, i) ==
    {j \in (i + 1)..(Len(s) + 1) : \A k \in i..(j - 1) : s[k] \in Whitespace}

\* the positions where a run [C]+ starting at i may end (exclusive)
RunAfter(s, i, C) ==
    {j \in (i + 1)..(Len(s) + 1) : \A k \in i..(j - 1) : s[k] \in C}

\* substring test: kw in text
Contains(text, kw) ==
    \E i \in 1..(Len(text) + 1) : LitAt(text, i, kw)

\* str.strip()
RECURSIVE LStrip(_)
LStrip(s) ==
    IF s # << >> /\ Head(s) \in Whitespace THEN LStrip(Tail(s)) ELSE s

RECURSIVE RStrip(_)
RStrip(s) ==
    IF s # << >> /\ s[Len(s)] \in Whitespace
    THEN RStrip(SubSeq(s, 1, Len(s) - 1))
    ELSE s

Strip(s) == LStrip(RStrip(s))

\* ''.join(parts)
RECURSIVE Concat(_)
Concat(parts) ==
    IF parts = << >> THEN << >> ELSE Head(parts) \o Concat(Tail(parts))

\* a join that puts nothing between the lines
JoinSpace_NoSeparator(parts) == Concat(parts)

\* ' '.join(parts)
RECURSIVE JoinSpace(_)
JoinSpace(parts) ==
    IF parts = << >> THEN << >>
    ELSE IF Len(parts) = 1 THEN Head(parts)
    ELSE Head(parts) \o << " " >> \o JoinSpace(Tail(parts))

(***************************************************************************)
(* REGEX_LEVEL_MAP: the thirteen matchers, in table order                  *)
(***************************************************************************)
kw_phan      == <<"p","h","a^-","n">>
kw_thu       == <<"t","h","u+'">>
kw_chuong    == <<"c","h","u+","o+","n","g">>
kw_muc       == <<"m","u.","c">>
kw_tieu      == <<"t","i","e^?","u">>
kw_dieu      == <<"dd","i","e^-","u">>
kw_khoan     == <<"k","h","o","a?","n">>
kw_tieukhoan == <<"t","i","e^?","u"," ","k","h","o","a?","n">>

Ordinals ==
    << <<"n","h","a^'","t">>,
       <<"m","o^.","t">>,
       <<"h","a","i">>,
       <<"b","a">>,
       <<"b","o^'","n">>,
       <<"n","a(","m">>,
       <<"s","a'","u">>,
       <<"b","a?","y">>,
       <<"t","a'","m">>,
       <<"c","h","i'","n">>,
       <<"m","u+","o+-","i">>,
       <<"m","u+","o+-","i"," ","m","o^.","t">>,
       <<"m","u+","o+-","i"," ","h","a","i">>,
       <<"m","u+","o+-","i"," ","b","a">>,
       <<"m","u+","o+-","i"," ","b","o^'","n">>,
       <<"m","u+","o+-","i"," ","l","a(","m">>,
       <<"m","u+","o+-","i"," ","s","a'","u">>,
       <<"m","u+","o+-","i"," ","b","a?","y">>,
       <<"m","u+","o+-","i"," ","t","a'","m">>,
       <<"m","u+","o+-","i"," ","c","h","i'","n">>,
       <<"h","a","i"," ","m","u+","o+","i">>,
       <<"b","a"," ","m","u+","o+","i">>,
       <<"b","o^'","n"," ","m","u+","o+","i">>,
       <<"n","a(","m"," ","m","u+","o+","i">>,
       <<"s","a'","u"," ","m","u+","o+","i">>,
       <<"b","a?","y"," ","m","u+","o+","i">>,
       <<"t","a'","m"," ","m","u+","o+","i">>,
       <<"c","h","i'","n"," ","m","u+","o+","i">>,
       <<"t","r","a(","m">> >>

\* [IVXLCDM] under re.IGNORECASE
RomanCI == {"I", "V", "X", "L", "C", "D", "M", "i", "v", "x", "l", "c", "d", "m"}

\* ((?:[IVXLCDM]+)|(?:[0-9]{1,2}))\b at position i
NumberedAt(s, i) ==
    \/ \E j \in RunAfter(s, i, RomanCI) : WordBoundary(s, j)
    \/ \E j \in RunAfter(s, i, Digits) : j - i <= 2 /\ WordBoundary(s, j)

\* (thu\s+)?((?:[IVXLCDM]+)|(?:[0-9]{1,2}))\b at position i
OptThuNumberedAt(s, i) ==
    \/ NumberedAt(s, i)
    \/ /\ LitAtCI(s, i, kw_thu)
       /\ \E j \in WsAfter(s, i + Len(kw_thu)) : NumberedAt(s, j)

\* ^(kw)\s+(thu\s+)?(roman|digits)\b
MatchNumberedHeading(s, kw) ==
    /\ LitAtCI(s, 1, kw)
    /\ \E j \in WsAfter(s, Len(kw) + 1) : OptThuNumberedAt(s, j)

\* ^(phan)\s+thu\s+(nhat|mot|...)\b
MatchOrdinalPart(s) ==
    /\ LitAtCI(s, 1, kw_phan)
    /\ \E j \in WsAfter(s, Len(kw_phan) + 1) :
          /\ LitAtCI(s, j, kw_thu)
          /\ \E k \in WsAfter(s, j + Len(kw_thu)) :
                \E o \in 1..Len(Ordinals) :
                    /\ LitAtCI(s, k, Ordinals[o])
                    /\ WordBoundary(s, k + Len(Ordinals[o]))

\* ^(kw)\s+[C]+ under re.IGNORECASE
MatchKeywordRun(s, kw, C) ==
    /\ LitAtCI(s, 1, kw)
    /\ \E j \in WsAfter(s, Len(kw) + 1) : RunAfter(s, j, C) # {}

Delims == {".", ")"}

UpperLetters ==
    {"A", "B", "C", "D", "E", "F", "G", "H", "I", "J", "K", "L", "M", "N",
     "O", "P", "Q", "R", "S", "T", "U", "V", "W", "X", "Y", "Z",
     "DD", "E^", "O^", "A'", "A-", "A?", "A.", "A~", "A^-", "A^'", "A^."}

LowerLetters ==
    {"a", "b", "c", "d", "e", "f", "g", "h", "i", "j", "k", "l", "m", "n",
     "o", "p", "q", "r", "s", "t", "u", "v", "w", "x", "y", "z",
     "dd", "e^", "o^", "a'", "a-", "a?", "a.", "a~", "a^-", "a^'", "a^."}

\* ^(alt1|alt2|...)[\.\)]
MatchAltDelim(s, alts) ==
    \E a \in alts :
        /\ LitAt(s, 1, a)
        /\ Len(s) >= Len(a) + 1
        /\ s[Len(a) + 1] \in Delims

\* the letter matcher without its negative lookahead: ^([C])[\.\)]
MatchLetterBullet_NoLookahead(s, excluded, C) ==
    /\ Len(s) >= 2
    /\ s[1] \in C
    /\ s[2] \in Delims

\* ^(?!(x|xx|xxx)[\.\)])([C])[\.\)]
MatchLetterBullet(s, excluded, C) ==
    /\ ~MatchAltDelim(s, excluded)
    /\ Len(s) >= 2
    /\ s[1] \in C
    /\ s[2] \in Delims

UpperRomans ==
    {<<"I">>, <<"I","I">>, <<"I","I","I">>, <<"I","V">>, <<"V">>, <<"V","I">>,
     <<"V","I","I">>, <<"V","I","I","I">>, <<"I","X">>, <<"X">>}

LowerRomans ==
    {<<"i","i">>, <<"i","i","i">>, <<"i","v">>, <<"v">>, <<"v","i">>,
     <<"v","i","i">>, <<"v","i","i","i">>, <<"i","x">>, <<"x">>}

\* REGEX_LEVEL_MAP[k][1] : the level of the k-th matcher
REGEX_LEVEL_MAP == << 1, 1, 2, 3, 4, 5, 6, 7, 10, 11, 12, 13, 14 >>

\* compiled_regex_levels[k][0].match(line)
RegexMatch(k, line) ==
    CASE k = 1  -> MatchNumberedHeading(line, kw_phan)
      [] k = 2  -> MatchOrdinalPart(line)
      [] k = 3  -> MatchKeywordRun(line, kw_chuong, RomanCI \cup Digits)
      [] k = 4  -> MatchNumberedHeading(line, kw_muc)
      [] k = 5  -> /\ LitAtCI(line, 1, kw_tieu)
                   /\ \E j \in WsAfter(line, Len(kw_tieu) + 1) :
                         /\ LitAtCI(line, j, kw_muc)
                         /\ \E m \in WsAfter(line, j + Len(kw_muc)) :
                               OptThuNumberedAt(line, m)
      [] k = 6  -> MatchKeywordRun(line, kw_dieu, Digits)
      [] k = 7  -> MatchKeywordRun(line, kw_khoan, Digits)
      [] k = 8  -> MatchKeywordRun(line, kw_tieukhoan, Digits)
      [] k = 9  -> MatchLetterBullet(line, {<<"I">>, <<"I","I">>, <<"I","I","I">>},
                                     UpperLetters)
      [] k = 10 -> MatchAltDelim(line, UpperRomans)
      [] k = 11 -> /\ \E j \in RunAfter(line, 1, Digits) :
                         j <= Len(line) /\ line[j] \in Delims
      [] k = 12 -> MatchLetterBullet(line, {<<"i","i">>, <<"i","i","i">>},
                                     LowerLetters)
      [] k = 13 -> MatchAltDelim(line, LowerRomans)

\* a loop without the break: the last matcher that matches sets the level
FirstMatch_LastWins(line) ==
    IF \E k \in 1..Len(REGEX_LEVEL_MAP) : RegexMatch(k, line)
    THEN CHOOSE k \in 1..Len(REGEX_LEVEL_MAP) :
            /\ RegexMatch(k, line)
            /\ \A m \in (k + 1)..Len(REGEX_LEVEL_MAP) : ~RegexMatch(m, line)
    ELSE 0

\* the inner for-loop of the parser: index of the first matcher that matches
\* the line, 0 when none does (matched stays False)
FirstMatch(line) ==
    IF \E k \in 1..Len(REGEX_LEVEL_MAP) : RegexMatch(k, line)
    THEN CHOOSE k \in 1..Len(REGEX_LEVEL_MAP) :
            /\ RegexMatch(k, line)
            /\ \A m \in 1..(k - 1) : ~RegexMatch(m, line)
    ELSE 0

(***************************************************************************)
(* parse_legal_document_to_dict                                            *)
(***************************************************************************)
doc_keywords ==
    << <<"b","o^."," ","l","u","a^.","t">>,
       <<"c","h","i?"," ","t","h","i.">>,
       <<"h","i","e^'","n"," ","p","h","a'","p">>,
       <<"l","e^.","n","h">>,
       <<"l","u","a^.","t">>,
       <<"n","g","h","i."," ","dd","i.","n","h">>,
       <<"n","g","h","i."," ","q","u","y","e^'","t"," ","l","i","e^","n"," ","t","i.","c","h">>,
       <<"n","g","h","i."," ","q","u","y","e^'","t">>,
       <<"p","h","a'","p"," ","l","e^.","n","h">>,
       <<"q","u","y","e^'","t"," ","dd","i.","n","h">>,
       <<"t","h","o^","n","g"," ","t","u+"," ","l","i","e^","n"," ","t","i.","c","h">>,
       <<"t","h","o^","n","g"," ","t","u+">> >>

kw_phuluc == <<"p","h","u."," ","l","u.","c">>

\* the sentinel title
UnknownTitle == <<"K","h","o^","n","g"," ","x","a'","c"," ","dd","i.","n","h">>

\* lines[:20]
TitleScanLines == 20

\* appendix_regex.match(line.lower().strip())
appendix_regex(line) == LitAt(Strip(LowerStr(line)), 1, kw_phuluc)

\* any(kw in line.lower() for kw in doc_keywords)
HasKeyword(line) ==
    \E k \in 1..Len(doc_keywords) : Contains(LowerStr(line), doc_keywords[k])

Min(a, b) == IF a <= b THEN a ELSE b

\* a title loop over all the lines
FindTitle_ScansAll(ls) ==
    IF \E i \in 1..Len(ls) : HasKeyword(ls[i])
    THEN LET i == CHOOSE i \in 1..Len(ls) :
                        /\ HasKeyword(ls[i])
                        /\ \A m \in 1..(i - 1) : ~HasKeyword(ls[m])
         IN  IF i + 1 <= Len(ls)
             THEN << ls[i] \o << " " >> \o ls[i + 1] >>
             ELSE << ls[i] >>
    ELSE << >>

\* the title loop: << >> for None, else << title >>
FindTitle(ls) ==
    LET scanned == 1..Min(TitleScanLines, Len(ls))
    IN  IF \E i \in scanned : HasKeyword(ls[i])
        THEN LET i == CHOOSE i \in scanned :
                        /\ HasKeyword(ls[i])
                        /\ \A m \in 1..(i - 1) : ~HasKeyword(ls[m])
             IN  IF i + 1 <= Len(ls)
                 THEN << ls[i] \o << " " >> \o ls[i + 1] >>
                 ELSE << ls[i] >>
        ELSE << >>

\* the appendix loop: 0 for None, else the 1-based index of the first
\* appendix line
FindAppendix(ls) ==
    IF \E i \in 1..Len(ls) : appendix_regex(ls[i])
    THEN CHOOSE i \in 1..Len(ls) :
            /\ appendix_regex(ls[i])
            /\ \A m \in 1..(i - 1) : ~appendix_regex(ls[m])
    ELSE 0

\* lines = lines[:appendix_start_index]
Truncate(ls, idx) == IF idx = 0 THEN ls ELSE SubSeq(ls, 1, idx - 1)

\* a single test in place of the loop: at most one entry is closed
PopStack_AtMostOne(stk, nds, current_level) ==
    IF stk # << >> /\ nds[stk[Len(stk)]].level >= current_level
    THEN SubSeq(stk, 1, Len(stk) - 1)
    ELSE stk

\* a loop that closes only the entries strictly deeper than the heading
RECURSIVE PopStack_Strict(_, _, _)
PopStack_Strict(stk, nds, current_level) ==
    IF stk # << >> /\ nds[stk[Len(stk)]].level > current_level
    THEN PopStack_Strict(SubSeq(stk, 1, Len(stk) - 1), nds, current_level)
    ELSE stk

\* while stack and stack[-1]["level"] >= current_level: stack.pop()
RECURSIVE PopStack(_, _, _)
PopStack(stk, nds, current_level) ==
    IF stk # << >> /\ nds[stk[Len(stk)]].level >= current_level
    THEN PopStack(SubSeq(stk, 1, Len(stk) - 1), nds, current_level)
    ELSE stk

\* an iteration that gives a body line to the bottom entry of the stack
ParseStep_BodyToBottom(st, line) ==
    LET k == FirstMatch(line)
    IN  IF k # 0
        THEN LET current_level == REGEX_LEVEL_MAP[k]
                 popped == PopStack(st.stack, st.nodes, current_level)
                 parent == IF popped # << >> THEN popped[Len(popped)] ELSE 0
                 new_node == [level |-> current_level, content |-> line,
                              parent |-> parent]
             IN  [nodes |-> Append(st.nodes, new_node),
                  stack |-> Append(popped, Len(st.nodes) + 1),
                  non_saved_lines |-> st.non_saved_lines]
        ELSE IF st.stack = << >>
             THEN [st EXCEPT !.non_saved_lines = Append(@, line)]
             ELSE LET bottom == st.stack[1]
                  IN  [st EXCEPT !.nodes[bottom].content = @ \o << " " >> \o line]

\* an iteration in which a new heading takes over, as its own children, the
\* siblings it has just closed
ParseStep_AdoptsClosed(st, line) ==
    LET k == FirstMatch(line)
    IN  IF k # 0
        THEN LET current_level == REGEX_LEVEL_MAP[k]
                 popped == PopStack(st.stack, st.nodes, current_level)
                 parent == IF popped # << >> THEN popped[Len(popped)] ELSE 0
                 new_node == [level |-> current_level, content |-> line,
                              parent |-> parent]
                 closed == {st.stack[i] : i \in (Len(popped) + 1)..Len(st.stack)}
             IN  [nodes |->
                     [i \in 1..(Len(st.nodes) + 1) |->
                        IF i = Len(st.nodes) + 1 THEN new_node
                        ELSE IF i \in closed /\ st.nodes[i].parent = parent
                             THEN [st.nodes[i] EXCEPT !.parent = Len(st.nodes) + 1]
                             ELSE st.nodes[i]],
                  stack |-> Append(popped, Len(st.nodes) + 1),
                  non_saved_lines |-> st.non_saved_lines]
        ELSE IF st.stack = << >>
             THEN [st EXCEPT !.non_saved_lines = Append(@, line)]
             ELSE LET top == st.stack[Len(st.stack)]
                  IN  [st EXCEPT !.nodes[top].content = @ \o << " " >> \o line]

\* an iteration that keeps a line met before any heading as a node of its
\* own under the root
ParseStep_KeepsPreamble(st, line) ==
    LET k == FirstMatch(line)
    IN  IF k # 0
        THEN LET current_level == REGEX_LEVEL_MAP[k]
                 popped == PopStack(st.stack, st.nodes, current_level)
                 parent == IF popped # << >> THEN popped[Len(popped)] ELSE 0
                 new_node == [level |-> current_level, content |-> line,
                              parent |-> parent]
             IN  [nodes |-> Append(st.nodes, new_node),
                  stack |-> Append(popped, Len(st.nodes) + 1),
                  non_saved_lines |-> st.non_saved_lines]
        ELSE IF st.stack = << >>
             THEN [nodes |-> Append(st.nodes, [level |-> 0, content |-> line,
                                               parent |-> 0]),
                   stack |-> st.stack,
                   non_saved_lines |-> Append(st.non_saved_lines, line)]
             ELSE LET top == st.stack[Len(st.stack)]
                  IN  [st EXCEPT !.nodes[top].content = @ \o << " " >> \o line]

\* One iteration of "for line in lines".  A node is a record of the arena
\* nds; parent = 0 is the root, and the children of a node are the nodes
\* naming it as parent, in creation order (children.append).
ParseStep(st, line) ==
    LET k == FirstMatch(line)
    IN  IF k # 0
        THEN LET current_level == REGEX_LEVEL_MAP[k]
                 popped == PopStack(st.stack, st.nodes, current_level)
                 parent == IF popped # << >> THEN popped[Len(popped)] ELSE 0
                 new_node == [level |-> current_level, content |-> line,
                              parent |-> parent]
             IN  [nodes |-> Append(st.nodes, new_node),
                  stack |-> Append(popped, Len(st.nodes) + 1),
                  non_saved_lines |-> st.non_saved_lines]
        ELSE IF st.stack = << >>
             THEN [st EXCEPT !.non_saved_lines = Append(@, line)]
             ELSE LET top == st.stack[Len(st.stack)]
                  IN  IF st.nodes[top].content # << >>
                      THEN [st EXCEPT !.nodes[top].content = @ \o << " " >> \o line]
                      ELSE [st EXCEPT !.nodes[top].content = line]

RECURSIVE ParseLoop(_, _)
ParseLoop(st, ls) ==
    IF ls = << >> THEN st ELSE ParseLoop(ParseStep(st, Head(ls)), Tail(ls))

\* the returned dictionary (the fields the chunker and the claims read)
TreeData(title, idx, st) ==
    [title |-> IF title # << >> THEN title[1] ELSE UnknownTitle,
     has_appendix |-> idx # 0,
     non_saved_lines |-> st.non_saved_lines,
     content |-> st.nodes]

EmptyParse == [nodes |-> << >>, stack |-> << >>, non_saved_lines |-> << >>]

parse_legal_document_to_dict(ls) ==
    LET idx == FindAppendix(ls)
    IN  TreeData(FindTitle(ls), idx, ParseLoop(EmptyParse, Truncate(ls, idx)))

(***************************************************************************)
(* count_tokens, ensure_punctuation, create_chunks_from_tree               *)
(***************************************************************************)
\* len(encoding.encode(text)).  The encoding is tiktoken's; the model has two
\* stand-ins for it, selected by model_name: one token per character, and one
\* token per character that is not white space.
Tokenizers == {"per_char", "per_nonspace"}

count_tokens(text, m) ==
    IF m = "per_char"
    THEN Len(text)
    ELSE Cardinality({k \in 1..Len(text) : text[k] \notin Whitespace})

\* [.!?:] and the two full-width marks of the character class
Terminal == {".", "!", "?", "U+3002", ":", "U+FF1A"}

\* a normalisation that adds the full stop whatever the text ends with
ensure_punctuation_Always(text) == text \o << "." >>

ensure_punctuation(text) ==
    LET t == Strip(text)
    IN  IF t # << >> /\ t[Len(t)] \in Terminal THEN text ELSE text \o << "." >>

\* node 0 is root_node: its content is the title, its children the top level
NodeContent(tree, n) == IF n = 0 THEN tree.title ELSE tree.content[n].content

\* node.get("children", []), in list order
RECURSIVE ChildrenFrom(_, _, _)
ChildrenFrom(tree, n, i) ==
    IF i > Len(tree.content) THEN << >>
    ELSE IF tree.content[i].parent = n
         THEN << i >> \o ChildrenFrom(tree, n, i + 1)
         ELSE ChildrenFrom(tree, n, i + 1)

Children(tree, n) == ChildrenFrom(tree, n, 1)

RECURSIVE extract_all_node_texts(_, _)
RECURSIVE ExtractEach(_, _)
extract_all_node_texts(tree, n) ==
    << NodeContent(tree, n) >> \o ExtractEach(tree, Children(tree, n))

ExtractEach(tree, children) ==
    IF children = << >> THEN << >>
    ELSE extract_all_node_texts(tree, Head(children))
             \o ExtractEach(tree, Tail(children))

\* a traversal that emits the path of every node, leaf or not
RECURSIVE dfs_build_EveryNode(_, _, _, _)
RECURSIVE DfsEach_EveryNode(_, _, _, _)
dfs_build_EveryNode(tree, n, current_path, m) ==
    LET text == ensure_punctuation(NodeContent(tree, n))
        path == Append(current_path, text)
    IN  << [chunk_content |-> path,
            token_length |-> count_tokens(Concat(path), m)] >>
            \o DfsEach_EveryNode(tree, Children(tree, n), path, m)

DfsEach_EveryNode(tree, children, path, m) ==
    IF children = << >> THEN << >>
    ELSE dfs_build_EveryNode(tree, Head(children), path, m)
             \o DfsEach_EveryNode(tree, Tail(children), path, m)

\* dfs_build(node) with current_path as it is on entry: the chunks appended
\* to all_chunks during the call
RECURSIVE dfs_build(_, _, _, _)
RECURSIVE DfsEach(_, _, _, _)
dfs_build(tree, n, current_path, m) ==
    LET text == ensure_punctuation(NodeContent(tree, n))
        path == Append(current_path, text)
        children == Children(tree, n)
    IN  IF children = << >>
        THEN << [chunk_content |-> path,
                 token_length |-> count_tokens(Concat(path), m)] >>
        ELSE DfsEach(tree, children, path, m)

DfsEach(tree, children, path, m) ==
    IF children = << >> THEN << >>
    ELSE dfs_build(tree, Head(children), path, m)
             \o DfsEach(tree, Tail(children), path, m)

InSeq(x, s) == \E k \in 1..Len(s) : s[k] = x

\* the "find first different line" loop: 1-based index, 0 for found = -1
FirstNovel(lines_cur, lines_nxt) ==
    IF \E k \in 1..Len(lines_nxt) : ~InSeq(lines_nxt[k], lines_cur)
    THEN CHOOSE k \in 1..Len(lines_nxt) :
            /\ ~InSeq(lines_nxt[k], lines_cur)
            /\ \A q \in 1..(k - 1) : InSeq(lines_nxt[q], lines_cur)
    ELSE 0

\* a merge that resumes one line too late
MergedLines_SkipsNovel(lines_cur, lines_nxt) ==
    LET found == FirstNovel(lines_cur, lines_nxt)
    IN  IF found > 0
        THEN lines_cur \o SubSeq(lines_nxt, found + 1, Len(lines_nxt))
        ELSE lines_cur \o lines_nxt

\* merged_lines before re-normalisation
MergedLines(lines_cur, lines_nxt) ==
    LET found == FirstNovel(lines_cur, lines_nxt)
    IN  IF found > 0
        THEN lines_cur \o SubSeq(lines_nxt, found, Len(lines_nxt))
        ELSE lines_cur \o lines_nxt

\* a trial that counts the tokens of the candidate alone
TrialMerge_CountsCandidate(current, nxt, m) ==
    LET raw == MergedLines(current.chunk_content, nxt.chunk_content)
        merged_lines == [k \in 1..Len(raw) |-> ensure_punctuation(raw[k])]
    IN  [chunk_content |-> merged_lines,
         token_length |-> count_tokens(Concat(nxt.chunk_content), m)]

\* One trial of the inner while: the merged candidate
TrialMerge(current, nxt, m) ==
    LET raw == MergedLines(current.chunk_content, nxt.chunk_content)
        merged_lines == [k \in 1..Len(raw) |-> ensure_punctuation(raw[k])]
    IN  [chunk_content |-> merged_lines,
         token_length |-> count_tokens(Concat(merged_lines), m)]

\* an inner while that charges the budget with the added lines only
RECURSIVE Extend_ChargesAddedOnly(_, _, _, _, _)
Extend_ChargesAddedOnly(current, j, all_chunks, maxtok, m) ==
    IF j > Len(all_chunks) THEN [current |-> current, j |-> j]
    ELSE LET trial == TrialMerge(current, all_chunks[j], m)
         IN  IF trial.token_length - current.token_length <= maxtok
             THEN Extend_ChargesAddedOnly(trial, j + 1, all_chunks, maxtok, m)
             ELSE [current |-> current, j |-> j]

\* the inner while from index j on: the final current and the final j
RECURSIVE Extend(_, _, _, _, _)
Extend(current, j, all_chunks, maxtok, m) ==
    IF j > Len(all_chunks) THEN [current |-> current, j |-> j]
    ELSE LET trial == TrialMerge(current, all_chunks[j], m)
         IN  IF trial.token_length <= maxtok
             THEN Extend(trial, j + 1, all_chunks, maxtok, m)
             ELSE [current |-> current, j |-> j]

\* an outer while that goes on after the candidate that closed the chunk
RECURSIVE MergeFrom_SkipsRefused(_, _, _, _)
MergeFrom_SkipsRefused(i, all_chunks, maxtok, m) ==
    IF i > Len(all_chunks) THEN << >>
    ELSE LET r == Extend(all_chunks[i], i + 1, all_chunks, maxtok, m)
         IN  << [chunk_content |-> r.current.chunk_content,
                 token_length |-> r.current.token_length,
                 first |-> i, last |-> r.j - 1] >>
                 \o MergeFrom_SkipsRefused(r.j + 1, all_chunks, maxtok, m)

\* the outer while from index i on: the chunks appended to final_chunks.
\* first and last are not fields of the program's chunk: they record the
\* path-chunks all_chunks[first..last] the chunk absorbed.
RECURSIVE MergeFrom(_, _, _, _)
MergeFrom(i, all_chunks, maxtok, m) ==
    IF i > Len(all_chunks) THEN << >>
    ELSE LET r == Extend(all_chunks[i], i + 1, all_chunks, maxtok, m)
         IN  << [chunk_content |-> r.current.chunk_content,
                 token_length |-> r.current.token_length,
                 first |-> i, last |-> r.j - 1] >>
                 \o MergeFrom(r.j, all_chunks, maxtok, m)

SeqRange(s) == {s[k] : k \in 1..Len(s)}

\* used_texts
UsedTexts(final_chunks) ==
    UNION {SeqRange(final_chunks[k].chunk_content) : k \in 1..Len(final_chunks)}

\* The whole function.  raised = TRUE stands for the ValueError; then
\* nothing is returned and output_chunks is empty.
create_chunks_from_tree(tree, source_file_path, m, maxtok) ==
    LET all_node_texts_raw == extract_all_node_texts(tree, 0)
        set_all_node_texts ==
            {ensure_punctuation(all_node_texts_raw[k]) :
                k \in 1..Len(all_node_texts_raw)}
        all_chunks == dfs_build(tree, 0, << >>, m)
        final_chunks == MergeFrom(1, all_chunks, maxtok, m)
        missing == set_all_node_texts \ UsedTexts(final_chunks)
    IN  [raised |-> missing # {},
         missing |-> missing,
         set_all_node_texts |-> set_all_node_texts,
         all_chunks |-> all_chunks,
         final_chunks |-> final_chunks,
         output_chunks |->
            IF missing # {} THEN << >>
            ELSE [k \in 1..Len(final_chunks) |->
                    [source_file |-> source_file_path,
                     url |-> << >>,
                     token_length |-> final_chunks[k].token_length,
                     chunk_content |->
                        JoinSpace(final_chunks[k].chunk_content)]]]

(***************************************************************************)
(* The inputs of the model                                                 *)
(***************************************************************************)
LineTitle    == <<"L","u","a^.","t">>
LineDieu     == <<"DD","i","e^-","u"," ","1">>
LineA        == <<"a",")">>
LineB        == <<"b",")">>
LineBody     == <<"x">>
LineAppendix == <<"P","h","u."," ","l","u.","c">>

LineVocab ==
    {LineTitle, LineDieu, LineA, LineB, LineBody, LineAppendix}

\* longest document of the single-document pipeline
MaxLines == 4

RECURSIVE SeqsUpTo(_, _)
SeqsUpTo(S, n) ==
    IF n = 0 THEN {<< >>}
    ELSE LET shorter == SeqsUpTo(S, n - 1)
         IN  shorter \cup {Append(s, x) : s \in shorter, x \in S}

Documents == SeqsUpTo(LineVocab, MaxLines)

\* the budgets tried; the program's default is MAX_TOKEN
MaxTokenChoices == {8, 22}

NoResult == [raised |-> FALSE, missing |-> {}, set_all_node_texts |-> {},
             all_chunks |-> << >>, final_chunks |-> << >>,
             output_chunks |-> << >>]

NoHistory == [runs |-> 0]

(***************************************************************************)
(* The pipeline on one document: parse, then chunk                         *)
(***************************************************************************)
Init ==
    /\ max_token \in MaxTokenChoices
    /\ model_name \in Tokenizers
    /\ lines \in Documents
    /\ pc = "start"
    /\ title_found = << >>
    /\ appendix_start_index = 0
    /\ todo = << >>
    /\ nodes = << >>
    /\ stack = << >>
    /\ non_saved_lines = << >>
    /\ result = NoResult
    /\ folder = << >>
    /\ output_json = << >>
    /\ history = NoHistory

\* lines 72-95: title, appendix truncation, empty stack and root
ParseBegin ==
    /\ pc = "start"
    /\ title_found' = FindTitle(lines)
    /\ appendix_start_index' = FindAppendix(lines)
    /\ todo' = Truncate(lines, FindAppendix(lines))
    /\ nodes' = << >>
    /\ stack' = << >>
    /\ non_saved_lines' = << >>
    /\ pc' = "build"
    /\ UNCHANGED << max_token, model_name, lines, result, batchVars >>

\* lines 97-122: one iteration of the loop over the lines
ParseLine ==
    /\ pc = "build"
    /\ todo # << >>
    /\ LET st == ParseStep([nodes |-> nodes, stack |-> stack,
                            non_saved_lines |-> non_saved_lines], Head(todo))
       IN  /\ nodes' = st.nodes
           /\ stack' = st.stack
           /\ non_saved_lines' = st.non_saved_lines
    /\ todo' = Tail(todo)
    /\ UNCHANGED << max_token, model_name, pc, lines, title_found,
                    appendix_start_index, result, batchVars >>

\* the dictionary the parser has built once the loop is over
tree_data ==
    TreeData(title_found, appendix_start_index,
             [nodes |-> nodes, stack |-> stack,
              non_saved_lines |-> non_saved_lines])

\* lines 124-133 and 157-263: the parser returns, and the chunker runs on
\* what it returned
CreateChunks ==
    /\ pc = "build"
    /\ todo = << >>
    /\ result' = create_chunks_from_tree(tree_data, "doc", model_name, max_token)
    /\ pc' = IF result'.raised THEN "error" ELSE "done"
    /\ UNCHANGED << max_token, model_name, lines, title_found,
                    appendix_start_index, todo, nodes, stack,
                    non_saved_lines, batchVars >>

Next == ParseBegin \/ ParseLine \/ CreateChunks

Spec == Init /\ [][Next]_vars

(***************************************************************************)
(* process_folder_to_unified_json, in append mode as __main__ runs it      *)
(*                                                                         *)
(* output_json is the list the JSON file holds; a file that does not exist *)
(* yet and a file holding [] load alike, as the empty list.  The file is   *)
(* written by the program alone, so it always loads.                       *)
(***************************************************************************)
\* the paths of the TXT files
Files == {"f1", "f2"}

DocEmpty == << >>
DocLaw   == << LineTitle, LineA, LineB >>
DocDieu  == << LineDieu, LineBody >>

\* the contents a TXT file may be given
BatchDocs == {DocEmpty, DocLaw, DocDieu}

\* runs of the processor in one behaviour
MaxRuns == 3

\* lines 36-38: [line.strip() for line in text.splitlines() if line.strip()]
ReadLines(text_lines) ==
    SelectSeq([k \in 1..Len(text_lines) |-> Strip(text_lines[k])],
              LAMBDA l : l # << >>)

SeqMax(s) == CHOOSE x \in SeqRange(s) : \A y \in SeqRange(s) : y <= x

\* numbering that starts over on every run
NextChunkId_FromOne(existing_chunks) == 1

\* lines 296 and 306-308
NextChunkId(existing_chunks) ==
    IF existing_chunks # << >>
    THEN SeqMax([k \in 1..Len(existing_chunks) |->
                    existing_chunks[k].chunk_id]) + 1
    ELSE 1

\* line 314
ProcessedFiles(existing_chunks) ==
    {existing_chunks[k].source_file : k \in 1..Len(existing_chunks)}

\* no file is filtered out
NewTxtFiles_NoFilter(txt_files, processed_files) == txt_files

\* line 338
NewTxtFiles(txt_files, processed_files) ==
    SelectSeq(txt_files, LAMBDA f : f \notin processed_files)

\* a processing that gives no chunk for a file without any line
ChunksOfFile_EmptyYieldsNone(f, fold, failing, m, maxtok) ==
    IF f \in failing \/ ReadLines(fold[f]) = << >> THEN << >>
    ELSE LET tree == parse_legal_document_to_dict(ReadLines(fold[f]))
             r == create_chunks_from_tree(tree, f, m, maxtok)
         IN  IF r.raised THEN << >> ELSE r.output_chunks

\* chunks handed over one by one, the first of them before the error
ChunksOfFile_Partial(f, fold, failing, m, maxtok) ==
    LET tree == parse_legal_document_to_dict(ReadLines(fold[f]))
        r == create_chunks_from_tree(tree, f, m, maxtok)
    IN  IF f \in failing \/ r.raised
        THEN SubSeq(r.output_chunks, 1, 1)
        ELSE r.output_chunks

\* lines 361-375, one file: what all_new_chunks is extended by.  A file in
\* failing is one whose parsing or chunking raises; the except clause then
\* records the error and the file contributes nothing.
ChunksOfFile(f, fold, failing, m, maxtok) ==
    IF f \in failing THEN << >>
    ELSE LET tree == parse_legal_document_to_dict(ReadLines(fold[f]))
             r == create_chunks_from_tree(tree, f, m, maxtok)
         IN  IF r.raised THEN << >> ELSE r.output_chunks

\* a loop that the first error ends
RECURSIVE AllNewChunks_Aborts(_, _, _, _, _)
AllNewChunks_Aborts(new_txt_files, fold, failing, m, maxtok) ==
    IF new_txt_files = << >> \/ Head(new_txt_files) \in failing THEN << >>
    ELSE LET tree == parse_legal_document_to_dict(
                         ReadLines(fold[Head(new_txt_files)]))
             r == create_chunks_from_tree(tree, Head(new_txt_files), m, maxtok)
         IN  r.output_chunks
                \o AllNewChunks_Aborts(Tail(new_txt_files), fold, failing,
                                       m, maxtok)

\* lines 354-375: the loop over new_txt_files
RECURSIVE AllNewChunks(_, _, _, _, _)
AllNewChunks(new_txt_files, fold, failing, m, maxtok) ==
    IF new_txt_files = << >> THEN << >>
    ELSE ChunksOfFile(Head(new_txt_files), fold, failing, m, maxtok)
            \o AllNewChunks(Tail(new_txt_files), fold, failing, m, maxtok)

\* lines 379-381
AssignIds(all_new_chunks, next_chunk_id) ==
    [k \in 1..Len(all_new_chunks) |->
        [chunk_id |-> next_chunk_id + k - 1,
         source_file |-> all_new_chunks[k].source_file,
         url |-> all_new_chunks[k].url,
         token_length |-> all_new_chunks[k].token_length,
         chunk_content |-> all_new_chunks[k].chunk_content]]

\* a run that starts from an empty list, as append_mode=False does, and
\* writes the chunks of the files it found only
process_folder_to_unified_json_Overwrite(existing_chunks, fold, txt_files, failing, m, maxtok) ==
    AssignIds(AllNewChunks(txt_files, fold, failing, m, maxtok), 1)

\* The whole function: the list the JSON file holds when it returns.
process_folder_to_unified_json(existing_chunks, fold, txt_files, failing, m, maxtok) ==
    LET new_txt_files == NewTxtFiles(txt_files, ProcessedFiles(existing_chunks))
    IN  IF new_txt_files = << >>
        THEN existing_chunks
        ELSE existing_chunks
                \o AssignIds(AllNewChunks(new_txt_files, fold, failing, m, maxtok),
                             NextChunkId(existing_chunks))

\* the orders in which os.walk may list the files of S
Orders(S) ==
    {s \in [1..Cardinality(S) -> S] : \A f \in S : \E k \in DOMAIN s : s[k] = f}

InitBatch ==
    /\ max_token \in MaxTokenChoices
    /\ model_name \in Tokenizers
    /\ lines = << >>
    /\ pc = "batch"
    /\ title_found = << >>
    /\ appendix_start_index = 0
    /\ todo = << >>
    /\ nodes = << >>
    /\ stack = << >>
    /\ non_saved_lines = << >>
    /\ result = NoResult
    /\ folder = << >>
    /\ output_json = << >>
    /\ history = [runs |-> 0, before |-> << >>, new_txt_files |-> << >>,
                  failed |-> {}, failed_before |-> {}, snapshot |-> << >>,
                  done |-> [f \in Files |-> 0],
                  version |-> [f \in Files |-> << >>]]

\* convert_to_txt.py writes, or writes again, the TXT file f
WriteFile ==
    \E f \in Files, doc \in BatchDocs :
        /\ pc = "batch"
        /\ f \in DOMAIN folder => folder[f] # doc
        /\ folder' = [g \in DOMAIN folder \cup {f} |->
                        IF g = f THEN doc ELSE folder[g]]
        /\ UNCHANGED << max_token, model_name, pipeVars, output_json, history >>

\* one run of process_folder_to_unified_json(append_mode=True).  history
\* records what the run saw; it is not state of the program.
Run ==
    \E txt_files \in Orders(DOMAIN folder) :
        LET new_txt_files ==
                NewTxtFiles(txt_files, ProcessedFiles(output_json))
        IN  \E failing \in SUBSET SeqRange(new_txt_files) :
                /\ pc = "batch"
                /\ history.runs < MaxRuns
                /\ output_json' =
                      process_folder_to_unified_json(
                          output_json, folder, txt_files, failing,
                          model_name, max_token)
                /\ history' =
                      [runs |-> history.runs + 1,
                       before |-> output_json,
                       new_txt_files |-> new_txt_files,
                       failed |-> failing,
                       failed_before |-> history.failed,
                       snapshot |-> folder,
                       done |-> [f \in Files |->
                                   IF f \in SeqRange(new_txt_files) \ failing
                                   THEN history.done[f] + 1
                                   ELSE history.done[f]],
                       version |-> [f \in Files |->
                                   IF f \in SeqRange(new_txt_files) \ failing
                                   THEN folder[f]
                                   ELSE history.version[f]]]
                /\ UNCHANGED << max_token, model_name, pipeVars, folder >>

NextBatch == WriteFile \/ Run

SpecBatch == InitBatch /\ [][NextBatch]_vars

(***************************************************************************)
(* The parser alone, on documents that exercise the matcher table, the     *)
(* construction stack and the title scan                                   *)
(***************************************************************************)
\* MAX_TOKEN, the budget __main__ passes
MAX_TOKEN == 800

\* lines 72-122 without the chunker
NextParse == ParseBegin \/ ParseLine

\* the state before parse_legal_document_to_dict runs on a document of D
InitParseOn(D) ==
    /\ max_token = MAX_TOKEN
    /\ model_name = "per_char"
    /\ lines \in D
    /\ pc = "start"
    /\ title_found = << >>
    /\ appendix_start_index = 0
    /\ todo = << >>
    /\ nodes = << >>
    /\ stack = << >>
    /\ non_saved_lines = << >>
    /\ result = NoResult
    /\ folder = << >>
    /\ output_json = << >>
    /\ history = NoHistory

\* what a list marker line may start with: the roman numerals of both
\* cases, single letters, numbers, and strings that only look like markers
Markers ==
    UpperRomans \cup LowerRomans
        \cup {<<"i">>, <<"A">>, <<"B">>, <<"C">>, <<"DD">>, <<"E^">>,
              <<"a">>, <<"c">>, <<"dd">>, <<"e^">>,
              <<"1">>, <<"1","2">>,
              <<"I","I","I","I">>, <<"X","I">>, <<"x","i">>, <<"A","B">>}

MarkerEnds == {<<".">>, <<")">>, <<":">>, << >>}

LineTails == {<< >>, <<" ","x">>}

LinePhan      == <<"P","h","a^-","n"," ","I">>
LinePhanThu   == <<"P","h","a^-","n"," ","t","h","u+'"," ","n","h","a^'","t">>
LineChuong    == <<"C","h","u+","o+","n","g"," ","I","I">>
LineMuc       == <<"M","u.","c"," ","1">>
LineTieuMuc   == <<"T","i","e^?","u"," ","m","u.","c"," ","2">>
LineKhoan     == <<"K","h","o","a?","n"," ","1">>
LineTieuKhoan == <<"T","i","e^?","u"," ","k","h","o","a?","n"," ","1">>
LineNumber    == <<"1",".">>
LineDecree    == <<"N","G","H","I."," ","DD","I.","N","H">>

\* the lines given to the matcher table
ClassifyLines ==
    {m \o e \o t : m \in Markers, e \in MarkerEnds, t \in LineTails}
        \cup {LinePhan, LinePhanThu, LineChuong, LineMuc, LineTieuMuc,
              LineDieu, LineKhoan, LineTieuKhoan, LineTitle, LineBody}

\* documents of one line
ClassifyDocs == {<< l >> : l \in ClassifyLines}

InitClassify == InitParseOn(ClassifyDocs)

SpecClassify == InitClassify /\ [][NextParse]_vars

\* headings of four levels and a body line
TreeVocab == {LineChuong, LineDieu, LineNumber, LineA, LineBody}

\* longest document given to the tree construction
MaxTreeLines == 5

TreeDocs == SeqsUpTo(TreeVocab, MaxTreeLines)

InitTree == InitParseOn(TreeDocs)

SpecTree == InitTree /\ [][NextParse]_vars

\* the same documents, parsed and then chunked under the budget of __main__
SpecTreeChunks == InitTree /\ [][Next]_vars

\* longest document given to the title scan
MaxTitleLines == 22

\* documents with at most two keyword lines, at any positions; the keyword
\* lines differ in case and the other lines alternate
TitleDocs ==
    {[i \in 1..n |->
         IF i \in K
         THEN (IF i % 2 = 1 THEN LineTitle ELSE LineDecree)
         ELSE (IF i % 3 = 0 THEN LineBody ELSE LineA)] :
       n \in 0..MaxTitleLines,
       K \in {S \in SUBSET (1..MaxTitleLines) : Cardinality(S) <= 2}}

InitTitle == InitParseOn(TitleDocs)

SpecTitle == InitTitle /\ [][NextParse]_vars

(***************************************************************************)
(* Properties of the pipeline on one document                              *)
(***************************************************************************)
Finished == pc \in {"done", "error"}

\* the lines the loop of lines 97-122 has gone through so far
Consumed ==
    LET kept == Truncate(lines, appendix_start_index)
    IN  SubSeq(kept, 1, Len(kept) - Len(todo))

Count(x, s) == Cardinality({k \in 1..Len(s) : s[k] = x})

\* C1 (coverage): once the chunker has run, the normalized content of every
\* node of the tree, the title root included, is a line of some final chunk.
C1_Coverage ==
    Finished =>
        \A n \in 0..Len(nodes) :
            ensure_punctuation(NodeContent(tree_data, n))
                \in UsedTexts(result.final_chunks)

\* C1 witness: a tree with a heading that has children, chunked into several
\* final chunks of which one merged several path-chunks.
C1_Witness ==
    /\ pc = "done"
    /\ \E n \in 1..Len(nodes) : nodes[n].parent # 0
    /\ Len(result.final_chunks) >= 2
    /\ \E k \in 1..Len(result.final_chunks) :
          result.final_chunks[k].first < result.final_chunks[k].last

C5_EmptyInputNoChunks ==
    (Finished /\ lines = << >>) =>
        (pc = "done" /\ Len(result.output_chunks) = 0)

\* the text of line i occurs in no line before position k and not in the
\* sentinel title: a chunk can only have it from position i
OnlyFromAppendix(i, k) ==
    /\ \A j \in 1..(k - 1) : ~Contains(lines[j], lines[i])
    /\ ~Contains(UnknownTitle, lines[i])

\* C6 (appendix truncation): when the first appendix line is at position k,
\* no emitted chunk contains the text of a line at position >= k.
C6_NoAppendixText ==
    (pc = "done" /\ appendix_start_index # 0) =>
        \A i \in appendix_start_index..Len(lines) :
            OnlyFromAppendix(i, appendix_start_index) =>
                \A c \in 1..Len(result.output_chunks) :
                    ~Contains(result.output_chunks[c].chunk_content, lines[i])

\* length of the longest common prefix of two line sequences
RECURSIVE CommonPrefix(_, _)
CommonPrefix(p, q) ==
    IF p # << >> /\ q # << >> /\ Head(p) = Head(q)
    THEN 1 + CommonPrefix(Tail(p), Tail(q))
    ELSE 0

\* C7 (no duplication on merge): when two adjacent path-chunks are merged
\* into one chunk, each line of their common ancestor prefix occurs exactly
\* once in the chunk's line sequence.
C7_PrefixOnce ==
    pc = "done" =>
        \A k \in 1..Len(result.final_chunks) :
            LET c == result.final_chunks[k]
            IN  \A j \in c.first..(c.last - 1) :
                    LET p == result.all_chunks[j].chunk_content
                        q == result.all_chunks[j + 1].chunk_content
                    IN  \A i \in 1..CommonPrefix(p, q) :
                            Count(p[i], c.chunk_content) = 1

\* the tree is one heading H under the root with two leaf children A and B
TwoLeafTree ==
    /\ Len(nodes) = 3
    /\ nodes[1].parent = 0
    /\ nodes[2].parent = 1
    /\ nodes[3].parent = 1

\* the normalized lines T., H., A., B. of such a tree
Example1Lines ==
    << ensure_punctuation(tree_data.title),
       ensure_punctuation(nodes[1].content),
       ensure_punctuation(nodes[2].content),
       ensure_punctuation(nodes[3].content) >>

\* the path-chunks are [T., H., A.] and [T., H., B.], in that order
Example1Paths ==
    LET e == Example1Lines
    IN  [k \in 1..Len(result.all_chunks) |-> result.all_chunks[k].chunk_content]
            = << << e[1], e[2], e[3] >>, << e[1], e[2], e[4] >> >>

\* one chunk is emitted and its content is "T. H. A. B."
Example1Merged ==
    LET e == Example1Lines
    IN  /\ Len(result.output_chunks) = 1
        /\ result.output_chunks[1].chunk_content
              = e[1] \o << " " >> \o e[2] \o << " " >> \o e[3]
                     \o << " " >> \o e[4]

\* the four lines together are within the budget
Example1Fits ==
    count_tokens(Concat(Example1Lines), model_name) <= max_token

C15_OversizedLeaf ==
    Finished =>
        \A i \in 1..Len(result.all_chunks) :
            result.all_chunks[i].token_length > max_token =>
                /\ pc = "done"
                /\ \E k \in 1..Len(result.final_chunks) :
                      /\ result.final_chunks[k].first = i
                      /\ result.final_chunks[k].last = i
                      /\ result.final_chunks[k].chunk_content
                            = result.all_chunks[i].chunk_content
                      /\ result.output_chunks[k].chunk_content
                            = JoinSpace(result.all_chunks[i].chunk_content)
                      /\ i < Len(result.all_chunks) =>
                            /\ k < Len(result.final_chunks)
                            /\ result.final_chunks[k + 1].first = i + 1

\* C15 witness: an oversized path-chunk between two path-chunks that fit,
\* all three emitted.
C15_Witness ==
    /\ pc = "done"
    /\ \E i \in 2..(Len(result.all_chunks) - 1) :
          /\ result.all_chunks[i].token_length > max_token
          /\ result.all_chunks[i - 1].token_length <= max_token
          /\ result.all_chunks[i + 1].token_length <= max_token

\* the positions of the heading lines among the lines gone through, in
\* order
HeadingPositions ==
    SelectSeq([i \in 1..Len(Consumed) |-> i],
              LAMBDA i : FirstMatch(Consumed[i]) # 0)

\* the lines met before the first heading line, and they alone, are in the
\* side list; every node is made of its heading line and of the lines after
\* it up to the next heading line
UnassignedOnlyInSideList ==
    LET cons == Consumed
        hs == HeadingPositions
        preamble == IF hs = << >> THEN Len(cons) ELSE hs[1] - 1
    IN  /\ non_saved_lines = SubSeq(cons, 1, preamble)
        /\ Len(nodes) = Len(hs)
        /\ \A n \in 1..Len(nodes) :
              nodes[n].content
                  = JoinSpace(SubSeq(cons, hs[n],
                                     IF n < Len(hs) THEN hs[n + 1] - 1
                                     ELSE Len(cons)))

\* the text l occurs in no node and not in the sentinel title
TextOnlyUnassigned(l) ==
    /\ \A n \in 1..Len(nodes) : ~Contains(nodes[n].content, l)
    /\ ~Contains(UnknownTitle, l)

\* C16 as stated (unassigned content): a line unmatched while the stack is
\* empty is placed in the side list only, is part of no tree node, and its
\* text is in the content of no emitted chunk.
C16_Unassigned ==
    pc # "start" =>
        /\ UnassignedOnlyInSideList
        /\ pc = "done" =>
              \A i \in 1..Len(non_saved_lines) :
                  TextOnlyUnassigned(non_saved_lines[i]) =>
                      \A c \in 1..Len(result.output_chunks) :
                          ~Contains(result.output_chunks[c].chunk_content,
                                    non_saved_lines[i])

\* C16 amended: such a line is placed in the side list only and is part of
\* no tree node; the lines of the emitted chunks are the normalized title
\* and the normalized node contents, so its text is in a chunk only within
\* the title line.
C16_UnassignedButTitle ==
    pc # "start" =>
        /\ UnassignedOnlyInSideList
        /\ pc = "done" =>
              /\ UsedTexts(result.final_chunks)
                    \subseteq {ensure_punctuation(NodeContent(tree_data, n)) :
                                  n \in 0..Len(nodes)}
              /\ \A i \in 1..Len(non_saved_lines) :
                    TextOnlyUnassigned(non_saved_lines[i]) =>
                        \A ln \in UsedTexts(result.final_chunks) :
                            Contains(ln, non_saved_lines[i]) =>
                                ln = ensure_punctuation(tree_data.title)

\* C16 witness: two lines met before the first heading, one of them taken
\* into the title and so into the chunks, the other in no chunk.
C16_Witness ==
    /\ pc = "done"
    /\ Len(nodes) >= 1
    /\ \E i, j \in 1..Len(non_saved_lines) :
          /\ TextOnlyUnassigned(non_saved_lines[i])
          /\ Contains(tree_data.title, non_saved_lines[i])
          /\ \A c \in 1..Len(result.output_chunks) :
                /\ Contains(result.output_chunks[c].chunk_content,
                            non_saved_lines[i])
                /\ ~Contains(result.output_chunks[c].chunk_content,
                             non_saved_lines[j])

\* the nodes of the arena nds in pre-order, depth first and children left to
\* right, from node n on (n = 0 is the root, which is not listed)
RECURSIVE PreOrder(_, _)
RECURSIVE PreOrderEach(_, _)
PreOrder(nds, n) ==
    (IF n = 0 THEN << >> ELSE << n >>)
        \o PreOrderEach(nds, Children([content |-> nds], n))

PreOrderEach(nds, children) ==
    IF children = << >> THEN << >>
    ELSE PreOrder(nds, Head(children)) \o PreOrderEach(nds, Tail(children))

\* the nodes without children, the root (0) among them when the tree is
\* empty, in pre-order
LeavesInOrder ==
    IF nodes = << >> THEN << 0 >>
    ELSE SelectSeq(PreOrder(nodes, 0),
                   LAMBDA n : \A c \in 1..Len(nodes) : nodes[c].parent # n)

\* the normalized contents from the title root down to node n
RECURSIVE PathTo(_)
PathTo(n) ==
    IF n = 0 THEN << ensure_punctuation(tree_data.title) >>
    ELSE Append(PathTo(nodes[n].parent), ensure_punctuation(nodes[n].content))

\* C22 (path extraction): the path-chunks are, one per leaf and in the
\* pre-order of the leaves, the normalized contents of the nodes from the
\* title root down to the leaf.
C22_PathExtraction ==
    Finished =>
        LET leaves == LeavesInOrder
        IN  /\ Len(result.all_chunks) = Len(leaves)
            /\ \A k \in 1..Len(leaves) :
                  result.all_chunks[k].chunk_content = PathTo(leaves[k])

\* C22 witness: a tree with a leaf right below the root, a leaf three
\* headings deep and two leaves with the same parent heading.
C22_Witness ==
    /\ pc = "done"
    /\ \E k \in 1..Len(result.all_chunks) :
          Len(result.all_chunks[k].chunk_content) = 2
    /\ \E k \in 1..Len(result.all_chunks) :
          Len(result.all_chunks[k].chunk_content) >= 4
    /\ \E a, b \in 1..Len(nodes) :
          /\ a < b
          /\ nodes[a].parent # 0
          /\ nodes[a].parent = nodes[b].parent
    /\ Len(nodes) > Len(result.all_chunks)

\* current as it is once the chunk started at path-chunk i has gone through
\* the trials up to path-chunk j and committed them all
RECURSIVE Accumulated(_, _)
Accumulated(i, j) ==
    IF j <= i
    THEN [chunk_content |-> result.all_chunks[i].chunk_content,
          token_length |-> result.all_chunks[i].token_length]
    ELSE TrialMerge(Accumulated(i, j - 1), result.all_chunks[j], model_name)

\* the candidates tried against final chunk k: those it absorbed and the one
\* that closed it
Tried(k) ==
    LET c == result.final_chunks[k]
    IN  {j \in (c.first + 1)..(c.last + 1) : j <= Len(result.all_chunks)}

\* C23 (fully repeated candidate): when every line of the candidate is
\* already a line of current, the trial equals the lines of current with
\* nothing added, and the candidate is absorbed.
C23_RepeatedCandidate ==
    pc = "done" =>
        \A k \in 1..Len(result.final_chunks) :
            LET c == result.final_chunks[k]
            IN  /\ c.chunk_content
                      = Accumulated(c.first, c.last).chunk_content
                /\ \A j \in Tried(k) :
                      LET cur == Accumulated(c.first, j - 1)
                          nxt == result.all_chunks[j]
                      IN  (\A q \in 1..Len(nxt.chunk_content) :
                              InSeq(nxt.chunk_content[q], cur.chunk_content))
                          => /\ TrialMerge(cur, nxt, model_name).chunk_content
                                   = cur.chunk_content
                             /\ j <= c.last

\* C24 (greedy forward pass): the final chunks absorb consecutive non-empty
\* runs of path-chunks that follow one another in document order and cover
\* them all, each path-chunk in one run; a chunk is what the commits over
\* its run give; a run ends before path-chunk j only when the trial merge
\* with j exceeded max_token, and j then starts the next run.
C24_GreedyPass ==
    pc = "done" =>
        LET fc == result.final_chunks
            n == Len(result.all_chunks)
        IN  /\ fc # << >>
            /\ fc[1].first = 1
            /\ fc[Len(fc)].last = n
            /\ \A k \in 1..Len(fc) :
                  /\ fc[k].first <= fc[k].last
                  /\ fc[k].chunk_content
                        = Accumulated(fc[k].first, fc[k].last).chunk_content
                  /\ fc[k].token_length
                        = Accumulated(fc[k].first, fc[k].last).token_length
                  /\ \A j \in (fc[k].first + 1)..fc[k].last :
                        Accumulated(fc[k].first, j).token_length <= max_token
                  /\ k < Len(fc) =>
                        /\ fc[k + 1].first = fc[k].last + 1
                        /\ TrialMerge(Accumulated(fc[k].first, fc[k].last),
                                      result.all_chunks[fc[k].last + 1],
                                      model_name).token_length > max_token

\* C24 witness: three final chunks over four path-chunks, one of them a run
\* of two.
C24_Witness ==
    /\ pc = "done"
    /\ Len(result.all_chunks) = 4
    /\ Len(result.final_chunks) = 3
    /\ \E k \in 1..3 :
          result.final_chunks[k].last = result.final_chunks[k].first + 1

\* C25 (the coverage check never fails): the chunker never raises; the
\* normalized node contents that no final chunk holds are none, and the
\* re-normalisation of a merge leaves every line of a final chunk as it was.
C25_CheckNeverFails ==
    /\ pc # "error"
    /\ ~result.raised
    /\ pc = "done" =>
          /\ result.set_all_node_texts \ UsedTexts(result.final_chunks) = {}
          /\ \A l \in UsedTexts(result.final_chunks) :
                ensure_punctuation(l) = l

\* C25 witness: a merge re-normalised the lines of several nodes, and the
\* check found every one of at least four node contents.
C25_Witness ==
    /\ pc = "done"
    /\ Cardinality(result.set_all_node_texts) >= 4
    /\ \E k \in 1..Len(result.final_chunks) :
          result.final_chunks[k].first + 2 <= result.final_chunks[k].last

\* p is a subsequence of q: the entries of p occur in q in the same order
RECURSIVE IsSubsequence(_, _)
IsSubsequence(p, q) ==
    IF p = << >> THEN TRUE
    ELSE IF q = << >> THEN FALSE
    ELSE IF Head(p) = Head(q) THEN IsSubsequence(Tail(p), Tail(q))
    ELSE IsSubsequence(p, Tail(q))

\* C26 (context preservation): the root-to-leaf lines of every path-chunk a
\* final chunk absorbed are a subsequence of the lines of that chunk, equal
\* content strings of different nodes included.
C26_ContextPreserved ==
    pc = "done" =>
        \A k \in 1..Len(result.final_chunks) :
            \A j \in result.final_chunks[k].first..result.final_chunks[k].last :
                IsSubsequence(result.all_chunks[j].chunk_content,
                              result.final_chunks[k].chunk_content)

\* C27 (token count of the record): the token_length of every emitted
\* record is the tokenizer's count of the record's chunk_content, the
\* single-space join of the lines of the chunk.
C27_TokenLengthOfContent ==
    pc = "done" =>
        \A k \in 1..Len(result.output_chunks) :
            result.output_chunks[k].token_length
                = count_tokens(result.output_chunks[k].chunk_content, model_name)

(***************************************************************************)
(* Properties of the runs over a folder                                    *)
(***************************************************************************)
\* the records of source f in a collection, without their chunk_id
SourceChunks(store, f) ==
    LET mine == SelectSeq(store, LAMBDA c : c.source_file = f)
    IN  [k \in 1..Len(mine) |->
            [source_file |-> mine[k].source_file,
             url |-> mine[k].url,
             token_length |-> mine[k].token_length,
             chunk_content |-> mine[k].chunk_content]]

\* the chunks of one processing of file f holding the lines doc
ExpectedChunks(f, doc) ==
    create_chunks_from_tree(parse_legal_document_to_dict(ReadLines(doc)),
                            f, model_name, max_token).output_chunks

\* the sequence s without its entries equal to x
Without(s, x) == SelectSeq(s, LAMBDA y : y # x)

\* C3 (all or nothing): a document whose processing raised in a run has no
\* chunk in the collection, and for every source the collection holds either
\* no chunk or all the chunks of its processing, in order.
C3_AllOrNothing ==
    /\ \A f \in history.failed : SourceChunks(output_json, f) = << >>
    /\ \A f \in Files :
          \/ SourceChunks(output_json, f) = << >>
          \/ SourceChunks(output_json, f)
                = ExpectedChunks(f, history.version[f])

\* C3 witness: in the last run a document of two chunks raised and another
\* document of two chunks was processed.
C3_Witness ==
    /\ \E f \in history.failed :
          Len(ExpectedChunks(f, history.snapshot[f])) >= 2
    /\ \E f \in SeqRange(history.new_txt_files) \ history.failed :
          Len(SourceChunks(output_json, f)) >= 2

\* C4 (failure isolation): when document D raised in a run, every other new
\* document of the run has its chunks in the collection, and the collection
\* is the one the run would have left had D not been in the folder.
C4_FailureIsolation ==
    history.runs > 0 =>
        /\ \A f \in SeqRange(history.new_txt_files) \ history.failed :
              SourceChunks(output_json, f)
                  = ExpectedChunks(f, history.snapshot[f])
        /\ \A D \in history.failed :
              output_json =
                  process_folder_to_unified_json(
                      history.before, history.snapshot,
                      Without(history.new_txt_files, D),
                      history.failed \ {D}, model_name, max_token)

\* C4 witness: the first new document of the run raised and the next one
\* was processed into the collection.
C4_Witness ==
    /\ Len(history.new_txt_files) >= 2
    /\ history.new_txt_files[1] \in history.failed
    /\ history.new_txt_files[2] \notin history.failed
    /\ SourceChunks(output_json, history.new_txt_files[2]) # << >>

\* C9 (chunk identifiers): chunk_id strictly increases along the collection
\* (so ids are pairwise distinct), and every chunk a run added has an id
\* greater than every id present before the run.
C9_ChunkIds ==
    /\ \A i, j \in 1..Len(output_json) :
          i < j => output_json[i].chunk_id < output_json[j].chunk_id
    /\ \A k \in (Len(history.before) + 1)..Len(output_json) :
          \A q \in 1..Len(history.before) :
              output_json[k].chunk_id > history.before[q].chunk_id

\* C9 witness: a run that appended two chunks to a non-empty collection.
C9_Witness ==
    /\ Len(history.before) >= 1
    /\ Len(output_json) >= Len(history.before) + 2

\* C10 (skip if already processed): a run does not process a file that is
\* the source_file of a chunk already in the collection, so every source was
\* processed into the collection at most once and its chunks are those of
\* that one processing, whatever the file holds now.
C10_SkipProcessed ==
    /\ \A f \in SeqRange(history.new_txt_files) :
          f \notin ProcessedFiles(history.before)
    /\ \A f \in Files :
          /\ history.done[f] <= 1
          /\ f \in ProcessedFiles(output_json) =>
                SourceChunks(output_json, f)
                    = ExpectedChunks(f, history.version[f])

\* C10 witness: a file was processed, then rewritten with other lines, and
\* the last run saw the new lines and left the file's chunks as they were.
C10_Witness ==
    \E f \in Files :
        /\ history.done[f] = 1
        /\ f \in ProcessedFiles(history.before)
        /\ f \in DOMAIN history.snapshot
        /\ history.snapshot[f] # history.version[f]
        /\ ExpectedChunks(f, history.snapshot[f])
              # ExpectedChunks(f, history.version[f])


C12_RomanOne ==
    (pc = "build" /\ Len(Consumed) >= 1 /\ LitAt(Consumed[1], 1, <<"I", ".">>))
        => /\ Len(nodes) >= 1
           /\ nodes[1].level = 11
           /\ nodes[1].level # 10
           /\ non_saved_lines = << >>

\* C12 witness: the parser has classified the one-line document "I.".
C12_Witness ==
    /\ pc = "build"
    /\ lines = << <<"I", ".">> >>
    /\ todo = << >>
    /\ Len(nodes) = 1

\* the level of the parent of node n; the root has level -1
ParentLevel(n) ==
    IF nodes[n].parent = 0 THEN -1 ELSE nodes[nodes[n].parent].level

\* C13 (depth ordering): in every state of the construction and in the final
\* tree, every node is strictly deeper than its parent, the root counting as
\* level -1.
C13_DepthOrdering ==
    \A n \in 1..Len(nodes) : nodes[n].level > ParentLevel(n)

\* C13 witness: a heading closed two open entries and was attached under the
\* one that remained, in a tree three levels deep.
C13_Witness ==
    \E n \in 1..Len(nodes) :
        /\ n >= 4
        /\ nodes[n].parent # 0
        /\ nodes[n].parent <= n - 3
        /\ nodes[n - 1].parent = n - 2
        /\ nodes[n - 2].parent = nodes[n].parent
        /\ stack[Len(stack)] = n

\* the matchers of the table that match the line
Matching(line) == {k \in 1..Len(REGEX_LEVEL_MAP) : RegexMatch(k, line)}

\* C17 (first match wins): a line some matcher matches becomes a node whose
\* level is that of the lowest-index matcher that matches it, whatever later
\* matchers match it too; a line no matcher matches becomes no node and is
\* handled as body text.
C17_FirstMatchWins ==
    (pc = "build" /\ Len(lines) = 1 /\ todo = << >>) =>
        LET ms == Matching(lines[1])
        IN  IF ms = {}
            THEN nodes = << >> /\ non_saved_lines = lines
            ELSE /\ Len(nodes) = 1
                 /\ nodes[1].content = lines[1]
                 /\ non_saved_lines = << >>
                 /\ \A k \in ms :
                       (\A m \in ms : k <= m) =>
                           nodes[1].level = REGEX_LEVEL_MAP[k]

\* C17 witness: a line that two matchers of different levels match has been
\* classified by the earlier one.
C17_Witness ==
    /\ pc = "build"
    /\ Len(lines) = 1
    /\ todo = << >>
    /\ \E k, m \in Matching(lines[1]) :
          /\ k < m
          /\ REGEX_LEVEL_MAP[k] # REGEX_LEVEL_MAP[m]
          /\ nodes[1].level = REGEX_LEVEL_MAP[k]

\* the line starts with one character of C and a delimiter
LetterAndDelim(line, C) ==
    Len(line) >= 2 /\ line[1] \in C /\ line[2] \in Delims

\* C18 (roman-numeral list markers): a line that starts with an uppercase
\* roman numeral from I to X and a delimiter gets level 11, one that starts
\* with a lowercase roman numeral from ii to x and a delimiter gets level 14;
\* a single uppercase letter and a delimiter that is no such numeral gets
\* level 10, and a single lowercase letter and a delimiter that is no such
\* numeral gets level 13.
C18_RomanMarkers ==
    (pc = "build" /\ Len(lines) = 1 /\ todo = << >>) =>
        LET line == lines[1]
            upper == MatchAltDelim(line, UpperRomans)
            lower == MatchAltDelim(line, LowerRomans)
        IN  /\ upper => (Len(nodes) = 1 /\ nodes[1].level = 11)
            /\ lower => (Len(nodes) = 1 /\ nodes[1].level = 14)
            /\ (LetterAndDelim(line, UpperLetters) /\ ~upper)
                  => (Len(nodes) = 1 /\ nodes[1].level = 10)
            /\ (LetterAndDelim(line, LowerLetters) /\ ~lower)
                  => (Len(nodes) = 1 /\ nodes[1].level = 13)

\* the positions, among the first TitleScanLines lines, of the lines that
\* contain a keyword
KeywordHits ==
    {i \in 1..Len(lines) : i <= TitleScanLines /\ HasKeyword(lines[i])}

\* C19 (title detection): the title is made from the first line, among the
\* first 20, that contains a keyword in any case, joined by a space with the
\* line right after it (the line alone when it is the last line); when none
\* of the first 20 lines contains a keyword the title is the sentinel.
C19_TitleDetection ==
    pc # "start" =>
        LET hits == KeywordHits
        IN  IF hits = {}
            THEN title_found = << >> /\ tree_data.title = UnknownTitle
            ELSE \E i \in hits :
                    /\ \A h \in hits : i <= h
                    /\ tree_data.title
                          = IF i < Len(lines)
                            THEN lines[i] \o << " " >> \o lines[i + 1]
                            ELSE lines[i]

\* C19 witness: a document whose only keyword line is line 21 got the
\* sentinel title.
C19_Witness ==
    /\ pc = "build"
    /\ Len(lines) > TitleScanLines
    /\ HasKeyword(lines[TitleScanLines + 1])
    /\ KeywordHits = {}
    /\ tree_data.title = UnknownTitle

\* the k-th node the traversal visits begins with the k-th heading line of
\* the lines gone through, for every k
VisitsInDocumentOrder(nds, cons) ==
    LET visit == PreOrder(nds, 0)
        hs == SelectSeq([i \in 1..Len(cons) |-> i],
                        LAMBDA i : FirstMatch(cons[i]) # 0)
    IN  /\ Len(visit) = Len(nds)
        /\ Len(visit) = Len(hs)
        /\ \A k \in 1..Len(visit) :
              /\ visit[k] = k
              /\ LitAt(nds[visit[k]].content, 1, cons[hs[k]])

\* C20 (reading order): after every processed line the pre-order traversal
\* of the tree visits the heading nodes in the order of their heading lines
\* in the document, and the step has left the parent and the level of every
\* node attached before it as they were.
C20_ReadingOrder ==
    [][ pc = "build" =>
          /\ VisitsInDocumentOrder(nodes',
                SubSeq(lines, 1, Len(Truncate(lines, appendix_start_index))
                                    - Len(todo')))
          /\ \A n \in 1..Len(nodes) :
                /\ n <= Len(nodes')
                /\ nodes'[n].parent = nodes[n].parent
                /\ nodes'[n].level = nodes[n].level ]_vars

\* C20 witness: a tree in which the heading that came last is not the
\* deepest: it is a child of the root that follows nested headings.
C20_Witness ==
    /\ pc = "build"
    /\ todo = << >>
    /\ Len(nodes) >= 4
    /\ nodes[2].parent = 1
    /\ nodes[3].parent = 2
    /\ nodes[Len(nodes)].parent = 0
    /\ PreOrder(nodes, 0) = [k \in 1..Len(nodes) |-> k]

\* C21 (body-line step): a step that processes an unmatched line while the
\* stack is non-empty appends the line, after one space, to the content of
\* the top entry of the stack, which is the node created last; the stack,
\* the side list, the parent and level of every node and the content of
\* every other node stay as they were.
C21_BodyLineStep ==
    [][ (/\ pc = "build"
         /\ todo # << >>
         /\ Matching(Head(todo)) = {}
         /\ stack # << >>)
        => LET top == stack[Len(stack)]
           IN  /\ top = Len(nodes)
               /\ stack' = stack
               /\ non_saved_lines' = non_saved_lines
               /\ Len(nodes') = Len(nodes)
               /\ nodes'[top].content
                     = nodes[top].content \o << " " >> \o Head(todo)
               /\ \A n \in 1..Len(nodes) :
                     /\ nodes'[n].parent = nodes[n].parent
                     /\ nodes'[n].level = nodes[n].level
                     /\ n # top => nodes'[n].content = nodes[n].content ]_vars

\* C21 witness: a body line has been appended to the top of a stack of
\* several entries, below which other nodes exist.
C21_Witness ==
    /\ pc = "build"
    /\ Len(stack) >= 2
    /\ Len(nodes) >= 3
    /\ stack[Len(stack)] = Len(nodes)
    /\ \E h \in TreeVocab :
          nodes[Len(nodes)].content = h \o << " " >> \o LineBody

\* C28 (processed-set consistency): a file is the source of a chunk of the
\* collection, and so skipped by the next run, exactly when a processing of
\* it succeeded, which then was its last attempt; a processed document has
\* at least one chunk; a document that raised has none, and every run
\* attempts all the files of the folder that are not yet a source.
C28_ProcessedSet ==
    /\ \A f \in Files :
          /\ f \in ProcessedFiles(output_json) <=> history.done[f] >= 1
          /\ history.done[f] >= 1 => SourceChunks(output_json, f) # << >>
          /\ f \in history.failed =>
                /\ history.done[f] = 0
                /\ SourceChunks(output_json, f) = << >>
    /\ history.runs > 0 =>
          /\ SeqRange(history.new_txt_files)
                = DOMAIN history.snapshot \ ProcessedFiles(history.before)
          /\ history.failed_before \subseteq SeqRange(history.new_txt_files)

\* C28 witness: a document that raised in one run was attempted again and
\* processed in the next, and a file without any line was processed into a
\* chunk of its own.
C28_Witness ==
    /\ \E f \in history.failed_before :
          /\ f \notin history.failed
          /\ history.done[f] = 1
    /\ \E g \in Files :
          /\ history.done[g] = 1
          /\ history.version[g] = DocEmpty
          /\ Len(SourceChunks(output_json, g)) = 1

\* the last node created under node n (n = 0 is the root); 0 when n has no
\* child
LastChild(n) ==
    LET kids == {m \in 1..Len(nodes) : nodes[m].parent = n}
    IN  IF kids = {} THEN 0 ELSE CHOOSE m \in kids : \A o \in kids : o <= m

\* the path from the last child of node n down to a node without children,
\* following the last child at every step
RECURSIVE RightmostPathFrom(_)
RightmostPathFrom(n) ==
    IF LastChild(n) = 0 THEN << >>
    ELSE << LastChild(n) >> \o RightmostPathFrom(LastChild(n))

\* C29 (construction-stack invariant): after every processed line the stack
\* is the rightmost path of the tree, from the last child of the root down
\* through last children to a node without children; the levels of its
\* entries strictly increase from bottom to top; and its top is the node
\* created last.
C29_StackIsRightmostPath ==
    pc = "build" =>
        /\ stack = RightmostPathFrom(0)
        /\ \A i \in 1..(Len(stack) - 1) :
              nodes[stack[i]].level < nodes[stack[i + 1]].level
        /\ nodes # << >> => (stack # << >> /\ stack[Len(stack)] = Len(nodes))

\* C29 witness: three entries are open in a tree of at least five nodes, two
\* of them closed, one of which was itself a parent.
C29_Witness ==
    /\ pc = "build"
    /\ Len(stack) = 3
    /\ Len(nodes) >= 5
    /\ \E n \in 1..Len(nodes) :
          /\ \A i \in 1..Len(stack) : stack[i] # n
          /\ LastChild(n) # 0

====
